---- MODULE Spec2Model ----
(***************************************************************************)
(* Guardian crossword downloader: filename codec, retention (cleanup)      *)
(* passes of the local FileManager and the remote SuperNoteClient, and     *)
(* their confirmation gate.                                                *)
(*                                                                         *)
(* Text is modelled as a sequence of one-character strings, a calendar     *)
(* date as <<year, month, day>>.                                           *)
(***************************************************************************)
EXTENDS Integers, Sequences, FiniteSets, TLC

VARIABLES
    now,              \* the date part of datetime.now() of this process
    MAX_LOCAL_FILES,  \* config.py MAX_LOCAL_FILES, as configured for this process
    MAX_CLOUD_FILES,  \* config.py MAX_CLOUD_FILES, as configured for this process
    localDir,         \* names of the files in the downloads directory
    remoteDir,        \* names of the entries of the remote puzzles directory
    authenticated,    \* SuperNoteClient.authenticated
    pc,               \* position of the process
    adapter,          \* "local" (FileManager) / "remote" (SuperNoteClient) / "none"
    auto_confirm,     \* argument of the running cleanup_old_files
    dry_run,          \* argument of the running cleanup_old_files
    files,            \* the listing taken at the start of the pass
    files_to_remove,  \* the deletion list of the pass
    idx,              \* position of the delete loop in files_to_remove
    removed_count,    \* removed_count of the delete loop
    ret,              \* return value of the pass (None while it runs)
    gate,             \* outcomes of the confirmation decision, in order taken
    prompts,          \* raw answers read by input() in this pass, in order
    calls,            \* store calls of this pass: <<"delete", name, ok>>
    dirAtStart,       \* the adapter's store contents when the pass started
    filename,         \* codec: the name under decoding
    origin,           \* codec: how filename was made
    decoded,          \* codec: results of the decoders on filename
    junk,             \* names in localDir whose file does not start with %PDF-
    dl_puzzle_type,   \* argument of the running download_crossword
    dl_target_date,   \* argument of the running download_crossword
    fallback_dates,   \* fallback_dates of download_crossword
    dateIdx,          \* position of its loop over fallback_dates
    attempt,          \* attempt of the running download_with_retries
    gets,             \* outcomes of the GET requests issued for the current URL
    sleeps,           \* time.sleep(RETRY_DELAY) calls made for the current URL
    tried,            \* what became of each fallback date tried so far
    dlret,            \* return value of download_crossword (None while it runs)
    policy_age,       \* policy comparison: the age limit given to both adapters
    policy_sel,       \* policy comparison: what each adapter selects
    args,             \* cli: the parsed command line
    credentials,      \* cli: whether .env holds both SuperNote credentials
    puzzle_types,     \* cli: puzzle_types of main
    successful_downloads,  \* cli: successful_downloads of main (file names)
    events,           \* cli: stages entered and store calls issued, in order
    exit              \* cli: how main ended (None while it runs)

vars == <<now, MAX_LOCAL_FILES, MAX_CLOUD_FILES, localDir, remoteDir, authenticated,
          pc, adapter, auto_confirm, dry_run, files, files_to_remove, idx,
          removed_count, ret, gate, prompts, calls, dirAtStart,
          filename, origin, decoded,
          junk, dl_puzzle_type, dl_target_date, fallback_dates, dateIdx, attempt, gets,
          sleeps, tried, dlret,
          policy_age, policy_sel,
          args, credentials, puzzle_types, successful_downloads, events, exit>>

\* Python values that may be absent or raised are sequences: None is <<>>, a
\* value v is <<v>>, a raised exception e is <<"raise", e>>.
None == <<>>

Some(v) == <<v>>

Raise(e) == <<"raise", e>>

Raised(r) == Len(r) = 2

-----------------------------------------------------------------------------
(* Text primitives (Python str methods used by the code)                   *)

Digit == <<"0", "1", "2", "3", "4", "5", "6", "7", "8", "9">>

DigitChars == {Digit[i] : i \in 1..10}

\* value of a decimal digit character
DigitVal(c) == CHOOSE v \in 0..9 : Digit[v + 1] = c

\* str.isdigit() on the model's alphabet
isdigit(s) == Len(s) > 0 /\ \A i \in 1..Len(s) : s[i] \in DigitChars

\* str.startswith(p)
startswith(s, p) == Len(s) >= Len(p) /\ SubSeq(s, 1, Len(p)) = p

\* str.endswith(p)
endswith(s, p) == Len(s) >= Len(p) /\ SubSeq(s, Len(s) - Len(p) + 1, Len(s)) = p

\* p occurs in s at position i
OccursAt(s, p, i) == i + Len(p) - 1 <= Len(s) /\ SubSeq(s, i, i + Len(p) - 1) = p

\* str.split(sep) for a one-character separator: the list of parts
RECURSIVE SplitFrom(_, _, _, _)
SplitFrom(s, sep, i, cur) ==
    IF i > Len(s) THEN <<cur>>
    ELSE IF s[i] = sep THEN <<cur>> \o SplitFrom(s, sep, i + 1, <<>>)
    ELSE SplitFrom(s, sep, i + 1, Append(cur, s[i]))

split(s, sep) == SplitFrom(s, sep, 1, <<>>)

\* str.replace(old, ""): every non-overlapping occurrence removed, left to right
RECURSIVE RemoveFrom(_, _, _)
RemoveFrom(s, old, i) ==
    IF i > Len(s) THEN <<>>
    ELSE IF OccursAt(s, old, i) THEN RemoveFrom(s, old, i + Len(old))
    ELSE <<s[i]>> \o RemoveFrom(s, old, i + 1)

replace_with_empty(s, old) == RemoveFrom(s, old, 1)

\* code points of the characters the model uses (Python compares str by code point)
Ord(c) ==
    CASE c = " " -> 32 [] c = "-" -> 45 [] c = "." -> 46
      [] c \in DigitChars -> 48 + DigitVal(c)
      [] c = "E" -> 69 [] c = "N" -> 78 [] c = "O" -> 79 [] c = "S" -> 83
      [] c = "Y" -> 89
      [] c = "a" -> 97 [] c = "b" -> 98 [] c = "c" -> 99 [] c = "d" -> 100
      [] c = "e" -> 101 [] c = "f" -> 102 [] c = "g" -> 103 [] c = "i" -> 105
      [] c = "k" -> 107 [] c = "m" -> 109 [] c = "n" -> 110 [] c = "o" -> 111
      [] c = "p" -> 112 [] c = "q" -> 113 [] c = "r" -> 114 [] c = "s" -> 115
      [] c = "t" -> 116 [] c = "u" -> 117 [] c = "w" -> 119 [] c = "x" -> 120
      [] c = "y" -> 121

\* s < t in Python's str order
RECURSIVE StrLess(_, _)
StrLess(s, t) ==
    IF t = <<>> THEN FALSE
    ELSE IF s = <<>> THEN TRUE
    ELSE IF Ord(Head(s)) # Ord(Head(t)) THEN Ord(Head(s)) < Ord(Head(t))
    ELSE StrLess(Tail(s), Tail(t))

-----------------------------------------------------------------------------
(* Calendar (datetime)                                                     *)

IsLeap(y) == (y % 4 = 0 /\ y % 100 # 0) \/ y % 400 = 0

DaysInMonth(y, m) ==
    IF m = 2 THEN (IF IsLeap(y) THEN 29 ELSE 28)
    ELSE IF m \in {4, 6, 9, 11} THEN 30 ELSE 31

RECURSIVE DaysBeforeMonth(_, _)
DaysBeforeMonth(y, m) ==
    IF m = 1 THEN 0 ELSE DaysBeforeMonth(y, m - 1) + DaysInMonth(y, m - 1)

\* date.toordinal(): 1 for 0001-01-01
toordinal(d) ==
    LET y1 == d[1] - 1
    IN  y1 * 365 + (y1 \div 4) - (y1 \div 100) + (y1 \div 400)
        + DaysBeforeMonth(d[1], d[2]) + d[3]

\* date.weekday(): 0 = Monday .. 6 = Sunday
weekday(d) == (toordinal(d) + 6) % 7

\* a date the datetime constructor accepts
IsDate(y, m, d) ==
    /\ y \in 1..9999
    /\ m \in 1..12
    /\ d \in 1..DaysInMonth(y, m)

\* the number written with exactly n decimal digits (zero padded)
RECURSIVE Pad(_, _)
Pad(v, n) == IF n = 0 THEN <<>> ELSE Append(Pad(v \div 10, n - 1), Digit[(v % 10) + 1])

\* the value of a string of decimal digits
RECURSIVE Num(_)
Num(s) == IF s = <<>> THEN 0 ELSE 10 * Num(SubSeq(s, 1, Len(s) - 1)) + DigitVal(s[Len(s)])

\* date.strftime('%Y%m%d'), for years of four digits
strftime_Ymd(d) == Pad(d[1], 4) \o Pad(d[2], 2) \o Pad(d[3], 2)

\* datetime.strptime(s, '%Y%m%d'): <<date>>, or Raise("ValueError").
\* On a string of 8 digits the format matches only as 4+2+2 digits; anything
\* else leaves unconverted data or does not match, and raises.
strptime_Ymd(s) ==
    IF Len(s) = 8 /\ isdigit(s)
       /\ IsDate(Num(SubSeq(s, 1, 4)), Num(SubSeq(s, 5, 6)), Num(SubSeq(s, 7, 8)))
    THEN Some(<<Num(SubSeq(s, 1, 4)), Num(SubSeq(s, 5, 6)), Num(SubSeq(s, 7, 8))>>)
    ELSE Raise("ValueError")

-----------------------------------------------------------------------------
(* Configuration (config.py)                                               *)

LOCAL_RETENTION_DAYS == 30

CLOUD_RETENTION_DAYS == 90

Quick == <<"q", "u", "i", "c", "k">>

Cryptic == <<"c", "r", "y", "p", "t", "i", "c">>

QuickCryptic == Quick \o <<"-">> \o Cryptic

Weekend == <<"w", "e", "e", "k", "e", "n", "d">>

\* the registry: kind |-> weekdays of publication (0 = Monday)
GUARDIAN_PUZZLE_TYPES ==
    (Quick :> {0, 1, 2, 3, 4, 5}) @@ (Cryptic :> {0, 1, 2, 3, 4})
    @@ (QuickCryptic :> {5}) @@ (Weekend :> {5})

GuardianPrefix == <<"g", "u", "a", "r", "d", "i", "a", "n", "-">>

DotPdf == <<".", "p", "d", "f">>

\* FILENAME_PATTERN.format(puzzle_type=..., date_str=...)
FILENAME_PATTERN(puzzle_type, date_str) ==
    GuardianPrefix \o puzzle_type \o <<"-">> \o date_str \o DotPdf

-----------------------------------------------------------------------------
(* Filename codec                                                          *)

\* GuardianDownloader.generate_filename
generate_filename(puzzle_type, date) == FILENAME_PATTERN(puzzle_type, strftime_Ymd(date))

\* the date segment the decoders look at: parts[2].replace('.pdf', ''), or
\* None when the name has fewer than three parts or not the guardian- prefix
DateSegment(name) ==
    LET parts == split(name, "-")
    IN  IF Len(parts) >= 3 /\ startswith(name, GuardianPrefix)
        THEN Some(replace_with_empty(parts[3], DotPdf))
        ELSE None

\* the body of the try block of get_file_date_from_name
FileDateTry(name) ==
    LET seg == DateSegment(name)
    IN  IF seg # None /\ Len(seg[1]) = 8 /\ isdigit(seg[1])
        THEN strptime_Ymd(seg[1])
        ELSE None

\* faulty variant of the except clause: it catches nothing, the exception escapes
ExceptNothing(r) == r

\* try: ... except Exception: return None
ExceptReturnNone(r) == IF Raised(r) THEN None ELSE r

\* FileManager.get_file_date_from_name: <<date>> or None
get_file_date_from_name(name) == ExceptReturnNone(FileDateTry(name))

\* (datetime.now() - file_date).days: whole days, floored
AgeDays(today, file_date) == toordinal(today) - toordinal(file_date)

\* the body of the try block of get_file_age_from_name
FileAgeTry(name, today) ==
    LET d == FileDateTry(name)
    IN  IF Raised(d) \/ d = None THEN d ELSE Some(AgeDays(today, d[1]))

\* FileManager.get_file_age_from_name: <<age>> or None
FileManager_get_file_age_from_name(name, today) ==
    ExceptReturnNone(FileAgeTry(name, today))

\* SuperNoteClient.get_file_age_from_name: <<age>> or None
SuperNoteClient_get_file_age_from_name(name, today) ==
    ExceptReturnNone(FileAgeTry(name, today))

-----------------------------------------------------------------------------
(* Publication days and fallback dates (guardian_downloader.py)            *)

MAX_RETRIES == 3

RETRY_DELAY == 2

FALLBACK_DAYS == 3

\* a kind the registry does not know
Sudoku == <<"s", "u", "d", "o", "k", "u">>

\* current_date -= timedelta(days=1)
PrevDay(d) ==
    IF d[3] > 1 THEN <<d[1], d[2], d[3] - 1>>
    ELSE IF d[2] > 1 THEN <<d[1], d[2] - 1, DaysInMonth(d[1], d[2] - 1)>>
    ELSE <<d[1] - 1, 12, 31>>

\* GuardianDownloader.is_puzzle_available_on_day
is_puzzle_available_on_day(kind, date) ==
    IF kind \notin DOMAIN GUARDIAN_PUZZLE_TYPES THEN FALSE
    ELSE weekday(date) \in GUARDIAN_PUZZLE_TYPES[kind]

\* the loop of get_fallback_dates with n iterations to go
RECURSIVE FallbackLoop(_, _, _)
FallbackLoop(kind, current_date, n) ==
    IF n = 0 THEN <<>>
    ELSE (IF is_puzzle_available_on_day(kind, current_date)
          THEN <<current_date>> ELSE <<>>)
         \o FallbackLoop(kind, PrevDay(current_date), n - 1)

\* faulty variant: the walk starts at the day before the target
get_fallback_dates_from_yesterday(kind, date) ==
    FallbackLoop(kind, PrevDay(date), FALLBACK_DAYS)

\* GuardianDownloader.get_fallback_dates
get_fallback_dates(kind, date) == FallbackLoop(kind, date, FALLBACK_DAYS)

-----------------------------------------------------------------------------
(* The clock and the names in the stores                                   *)

\* the dates of datetime.now() the model runs under
NowDates == {<<2025, 3, 1>>}

Guardian == <<"g", "u", "a", "r", "d", "i", "a", "n">>

Extra == <<"e", "x", "t", "r", "a">>

\* names found in the stores, with their age on 2025-03-01
StoreNames ==
    { generate_filename(Quick, <<2024, 11, 1>>),         \* 120 days
      generate_filename(Cryptic, <<2024, 12, 1>>),       \* 90 days
      generate_filename(Quick, <<2025, 1, 30>>),         \* 30 days
      generate_filename(Cryptic, <<2025, 1, 30>>),       \* 30 days
      generate_filename(Quick, <<2025, 2, 24>>),         \* 5 days
      generate_filename(Quick, <<2025, 3, 5>>),          \* dated 4 days ahead
      generate_filename(QuickCryptic, <<2024, 11, 2>>),  \* not decoded
      GuardianPrefix \o Quick \o <<"-">> \o strftime_Ymd(<<2024, 11, 1>>),
                                                         \* no extension, 120 days
      Extra \o DotPdf }                                  \* a foreign file

\* the --date a download run of the command line tool is given (a Friday)
CliTargetDates == {<<2025, 2, 28>>}

\* the names a download run can bring into the stores
CliNames ==
    {generate_filename(k, FallbackLoop(k, t, FALLBACK_DAYS)[i]) :
        <<k, t, i>> \in {x \in (DOMAIN GUARDIAN_PUZZLE_TYPES) \X CliTargetDates
                                  \X (1..FALLBACK_DAYS) :
                            x[3] <= Len(FallbackLoop(x[1], x[2], FALLBACK_DAYS))}}

\* FileManager.get_file_age_from_name on the names of the stores, tabulated
LocalAges ==
    [n \in StoreNames \cup CliNames |->
        [d \in NowDates |-> FileManager_get_file_age_from_name(n, d)]]

\* SuperNoteClient.get_file_age_from_name on the names of the stores, tabulated
RemoteAges ==
    [n \in StoreNames \cup CliNames |->
        [d \in NowDates |-> SuperNoteClient_get_file_age_from_name(n, d)]]

\* self.get_file_age_from_name(filename) in FileManager
LocalAge(name, today) == LocalAges[name][today]

\* self.get_file_age_from_name(filename) in SuperNoteClient
RemoteAge(name, today) == RemoteAges[name][today]

-----------------------------------------------------------------------------
(* Retention policy: the deletion list of cleanup_old_files                *)

\* the greatest element of a non-empty set of names, in str order
MaxName(S) == CHOOSE x \in S : \A y \in S : y = x \/ StrLess(y, x)

\* sorted(names): ascending str order
RECURSIVE Sorted(_)
Sorted(S) == IF S = {} THEN <<>> ELSE Append(Sorted(S \ {MaxName(S)}), MaxName(S))

\* glob 'guardian-*.pdf' on a file name
GlobMatches(name) ==
    /\ Len(name) >= Len(GuardianPrefix) + Len(DotPdf)
    /\ startswith(name, GuardianPrefix)
    /\ endswith(name, DotPdf)

\* FileManager.get_local_files: the matching names of the directory, sorted
get_local_files(dir) == Sorted({n \in dir : GlobMatches(n)})

\* faulty variant: the paths are sorted, not the (age, path) tuples
InfoLessByName(a, b) == StrLess(a[2], b[2])

\* (age, name) tuples compare by age, then by name
InfoLess(a, b) == a[1] < b[1] \/ (a[1] = b[1] /\ StrLess(a[2], b[2]))

\* faulty variant of the sort: list.sort() without reverse=True (youngest first)
RECURSIVE SortForward(_)
SortForward(l) ==
    IF l = <<>> THEN <<>>
    ELSE LET low == CHOOSE i \in 1..Len(l) : \A j \in 1..Len(l) : j = i \/ InfoLess(l[i], l[j])
         IN  <<l[low]>> \o SortForward(SubSeq(l, 1, low - 1) \o SubSeq(l, low + 1, Len(l)))

\* list.sort(reverse=True) of a list of distinct (age, name) tuples
RECURSIVE SortReverse(_)
SortReverse(l) ==
    IF l = <<>> THEN <<>>
    ELSE LET top == CHOOSE i \in 1..Len(l) : \A j \in 1..Len(l) : j = i \/ InfoLess(l[j], l[i])
         IN  <<l[top]>> \o SortReverse(SubSeq(l, 1, top - 1) \o SubSeq(l, top + 1, Len(l)))

\* faulty variant: l[:n-1]
TakeOneShort(l, n) == SubSeq(l, 1, IF n - 1 < Len(l) THEN n - 1 ELSE Len(l))

\* l[:n]
Take(l, n) == SubSeq(l, 1, IF n < Len(l) THEN n ELSE Len(l))

InSeq(x, l) == \E i \in 1..Len(l) : l[i] = x

\* faulty variant of the loop below: appends without the membership test
AppendAll(acc, infos) ==
    acc \o [i \in 1..Len(infos) |-> infos[i][2]]

\* for _, name in infos: if name not in acc: acc.append(name)
RECURSIVE AppendMissing(_, _)
AppendMissing(acc, infos) ==
    IF infos = <<>> THEN acc
    ELSE AppendMissing(IF InSeq(infos[1][2], acc) THEN acc ELSE Append(acc, infos[1][2]),
                       Tail(infos))

\* faulty variant of the age pass: >= instead of >
LocalAgePassInclusive(listing, today, max_age) ==
    LET Old(f) == LET age == LocalAge(f, today)
                  IN  age # None /\ age[1] >= max_age
    IN  SelectSeq(listing, Old)

\* FileManager.cleanup_old_files, age pass: files older than max_age, in listing order
LocalAgePass(listing, today, max_age) ==
    LET Old(f) == LET age == LocalAge(f, today)
                  IN  age # None /\ age[1] > max_age
    IN  SelectSeq(listing, Old)

\* faulty variant of file_info_list: a file of unknown age is ranked with age 0
LocalFileInfoListUnfiltered(listing, today) ==
    [i \in 1..Len(listing) |->
        LET age == LocalAge(listing[i], today)
        IN  <<IF age = None THEN 0 ELSE age[1], listing[i]>>]

\* FileManager.cleanup_old_files: file_info_list of the count pass
LocalFileInfoList(listing, today) ==
    LET Known(f) == LocalAge(f, today) # None
        known == SelectSeq(listing, Known)
    IN  [i \in 1..Len(known) |->
            <<LocalAge(known[i], today)[1], known[i]>>]

\* FileManager.cleanup_old_files, count pass: the names added to removal
LocalCountPass(removal, listing, today, max_count) ==
    IF Len(listing) > max_count
    THEN AppendMissing(removal,
                       Take(SortReverse(LocalFileInfoList(listing, today)),
                            Len(listing) - max_count))
    ELSE removal

\* faulty variant: the count pass runs only when the age pass found nothing
LocalFilesToRemoveAgeElseCount(listing, today, max_age, max_count) ==
    IF LocalAgePass(listing, today, max_age) # <<>>
    THEN LocalAgePass(listing, today, max_age)
    ELSE LocalCountPass(<<>>, listing, today, max_count)

\* FileManager.cleanup_old_files: files_to_remove for a listing
LocalFilesToRemove(listing, today, max_age, max_count) ==
    LocalCountPass(LocalAgePass(listing, today, max_age), listing, today, max_count)

\* SuperNoteClient.cleanup_old_files: entries skipped by both passes
RemoteSkipped(name) == name = <<>> \/ ~startswith(name, GuardianPrefix)

\* SuperNoteClient.cleanup_old_files, age pass
RemoteAgePass(listing, today, max_age) ==
    LET Old(f) == /\ ~RemoteSkipped(f)
                  /\ LET age == RemoteAge(f, today)
                     IN  age # None /\ age[1] > max_age
    IN  SelectSeq(listing, Old)

\* SuperNoteClient.cleanup_old_files: sorted_files of the count pass, before sorting
RemoteFileInfoList(listing, today) ==
    LET Known(f) == /\ ~RemoteSkipped(f)
                    /\ RemoteAge(f, today) # None
        known == SelectSeq(listing, Known)
    IN  [i \in 1..Len(known) |->
            <<RemoteAge(known[i], today)[1], known[i]>>]

\* SuperNoteClient.cleanup_old_files, count pass
RemoteCountPass(removal, listing, today, max_count) ==
    IF Len(listing) > max_count
    THEN AppendMissing(removal,
                       Take(SortReverse(RemoteFileInfoList(listing, today)),
                            Len(listing) - max_count))
    ELSE removal

\* SuperNoteClient.cleanup_old_files: files_to_remove for a listing
RemoteFilesToRemove(listing, today, max_age, max_count) ==
    RemoteCountPass(RemoteAgePass(listing, today, max_age), listing, today, max_count)

-----------------------------------------------------------------------------
(* Confirmation prompt (_confirm_deletion)                                 *)

\* str.lower() on the model's alphabet
LowerChar(c) ==
    CASE c = "Y" -> "y" [] c = "E" -> "e" [] c = "S" -> "s"
      [] c = "N" -> "n" [] c = "O" -> "o" [] OTHER -> c

lower(s) == [i \in 1..Len(s) |-> LowerChar(s[i])]

\* str.strip(): leading and trailing whitespace removed
RECURSIVE lstrip(_)
lstrip(s) == IF s # <<>> /\ Head(s) = " " THEN lstrip(Tail(s)) ELSE s

RECURSIVE rstrip(_)
rstrip(s) == IF s # <<>> /\ s[Len(s)] = " " THEN rstrip(SubSeq(s, 1, Len(s) - 1)) ELSE s

strip(s) == rstrip(lstrip(s))

\* faulty variant of the prompt loop: the answer is not stripped
PromptBranchNoStrip(inp) ==
    IF Raised(inp) THEN "rejected"
    ELSE LET response == lower(inp[1])
         IN  IF response \in {<<"y">>, <<"y", "e", "s">>} THEN "approved"
             ELSE IF response \in {<<"n">>, <<"n", "o">>, <<>>} THEN "rejected"
             ELSE "again"

\* the branch the prompt loop takes on one result of input():
\* "approved" (return True), "rejected" (return False), "again" (loop)
PromptBranch(inp) ==
    IF Raised(inp) THEN "rejected"
    ELSE LET response == lower(strip(inp[1]))
         IN  IF response \in {<<"y">>, <<"y", "e", "s">>} THEN "approved"
             ELSE IF response \in {<<"n">>, <<"n", "o">>, <<>>} THEN "rejected"
             ELSE "again"

\* FileManager._confirm_deletion, one turn of its while loop
FileManager_confirm_turn(inp) == PromptBranch(inp)

\* SuperNoteClient._confirm_deletion, one turn of its while loop
SuperNoteClient_confirm_turn(inp) == PromptBranch(inp)

-----------------------------------------------------------------------------
(* Names as lists of tokens                                                *)

\* a hyphen-free token of a name: a stem and an extension
Token(stem, ext) == [stem |-> stem, ext |-> ext]

RECURSIVE Join(_)
\* the name whose '-'-separated tokens are ts
Join(ts) ==
    IF Len(ts) = 1 THEN ts[1].stem \o ts[1].ext
    ELSE ts[1].stem \o ts[1].ext \o <<"-">> \o Join(Tail(ts))

-----------------------------------------------------------------------------
(* Inputs of the codec                                                     *)

\* days of the month tried in every month (first, middle, and the month ends)
CodecDays == {1, 15, 28, 29, 30, 31}

CodecYears == {2024, 2025}

\* calendar dates given to generate_filename
CodecDates ==
    {dt \in CodecYears \X (1..12) \X CodecDays : IsDate(dt[1], dt[2], dt[3])}

DotTxt == <<".", "t", "x", "t">>

Guard == <<"g", "u", "a", "r", "d">>

\* 8 digits of a real date
GoodStems == {strftime_Ymd(<<2025, 1, 15>>), strftime_Ymd(<<2024, 2, 29>>)}

\* date stems that are no real date of 8 digits
BadStems ==
    { <<"2", "0", "2", "5", "0", "1", "1">>,                  \* 7 digits
      <<"2", "0", "2", "5", "0", "1", "1", "5", "0">>,        \* 9 digits
      <<"2", "0", "2", "5", "0", "1", "1", "x">>,             \* a letter
      <<"2", "0", "2", "5", "0", "2", "3", "0">>,             \* 30 February
      <<"2", "0", "2", "5", "0", "2", "2", "9">>,             \* 29 February, no leap year
      <<"2", "0", "2", "5", "1", "3", "0", "1">>,             \* month 13
      <<"2", "0", "2", "5", "1", "2", "0", "0">>,             \* day 0
      <<"0", "0", "0", "0", "0", "1", "0", "1">>,             \* year 0
      <<>> }

DateTokens == {Token(st, e) : st \in GoodStems \cup BadStems, e \in {<<>>, DotPdf, DotTxt}}

\* token lists of foreign, damaged and canonical names: one to four tokens
TokenLists ==
    LET first == {Token(Guardian, <<>>), Token(Guard, <<>>)}
        kinds == {Token(w, <<>>) : w \in {Quick, Cryptic, Weekend, <<>>}}
        third == DateTokens \cup {Token(Cryptic, <<>>), Token(Cryptic, DotPdf)}
        last  == {Token(Extra, <<>>), Token(strftime_Ymd(<<2025, 1, 15>>), DotPdf)}
    IN  {<<a>> : a \in first \cup DateTokens}
        \cup (first \X (kinds \cup DateTokens))
        \cup (kinds \X DateTokens)
        \cup (first \X kinds \X third)
        \cup (first \X DateTokens \X last)
        \cup (first \X kinds \X third \X last)

-----------------------------------------------------------------------------
(* The codec as a state machine: a name is made, then decoded              *)

\* the variables of a cleanup pass while no pass runs
NoPass ==
    /\ adapter = "none"
    /\ auto_confirm = FALSE
    /\ dry_run = FALSE
    /\ files = <<>>
    /\ files_to_remove = <<>>
    /\ idx = 0
    /\ removed_count = 0
    /\ ret = None
    /\ gate = <<>>
    /\ prompts = <<>>
    /\ calls = <<>>
    /\ dirAtStart = {}

NoCodec ==
    /\ filename = <<>>
    /\ origin = [how |-> "none"]
    /\ decoded = [date |-> None, age_local |-> None, age_remote |-> None]

passVars == <<adapter, auto_confirm, dry_run, files, files_to_remove, idx,
              removed_count, ret, gate, prompts, calls, dirAtStart>>

storeVars == <<MAX_LOCAL_FILES, MAX_CLOUD_FILES, localDir, remoteDir, authenticated>>

codecVars == <<filename, origin, decoded>>

\* the variables of download_crossword while no download runs
NoDownload ==
    /\ junk = {}
    /\ dl_puzzle_type = <<>>
    /\ dl_target_date = <<>>
    /\ fallback_dates = <<>>
    /\ dateIdx = 0
    /\ attempt = 0
    /\ gets = <<>>
    /\ sleeps = 0
    /\ tried = <<>>
    /\ dlret = None

dlVars == <<junk, dl_puzzle_type, dl_target_date, fallback_dates, dateIdx, attempt, gets,
            sleeps, tried, dlret>>

\* the variables of the policy comparison while none is made
NoPolicy ==
    /\ policy_age = 0
    /\ policy_sel = [local |-> {}, remote |-> {}]

polVars == <<policy_age, policy_sel>>

\* the variables of main while the command line tool does not run
NoCli ==
    /\ args = [info |-> FALSE, cleanup |-> FALSE, no_upload |-> FALSE,
               auto_cleanup |-> FALSE, dry_run |-> FALSE, type |-> None]
    /\ credentials = FALSE
    /\ puzzle_types = <<>>
    /\ successful_downloads = <<>>
    /\ events = <<>>
    /\ exit = None

cliVars == <<args, credentials, puzzle_types, successful_downloads, events, exit>>

InitCodec ==
    /\ now \in NowDates
    /\ MAX_LOCAL_FILES = 1
    /\ MAX_CLOUD_FILES = 1
    /\ localDir = {}
    /\ remoteDir = {}
    /\ authenticated = FALSE
    /\ pc = "codec"
    /\ NoPass
    /\ NoCodec
    /\ NoDownload
    /\ NoPolicy
    /\ NoCli

\* generate_filename(kind, date) for a registered kind
Encode ==
    /\ pc = "codec"
    /\ \E kind \in DOMAIN GUARDIAN_PUZZLE_TYPES, date \in CodecDates :
         /\ filename' = generate_filename(kind, date)
         /\ origin' = [how |-> "encoded", kind |-> kind, date |-> date]
    /\ pc' = "named"
    /\ UNCHANGED <<now, storeVars, passVars, dlVars, polVars, cliVars, decoded>>

\* a name found in the wild: any list of tokens joined by '-'
Assemble ==
    /\ pc = "codec"
    /\ \E ts \in TokenLists :
         /\ filename' = Join(ts)
         /\ origin' = [how |-> "tokens", tokens |-> ts]
    /\ pc' = "named"
    /\ UNCHANGED <<now, storeVars, passVars, dlVars, polVars, cliVars, decoded>>

\* the three decoders applied to the name
Decode ==
    /\ pc = "named"
    /\ decoded' = [date |-> get_file_date_from_name(filename),
                   age_local |-> FileManager_get_file_age_from_name(filename, now),
                   age_remote |-> SuperNoteClient_get_file_age_from_name(filename, now)]
    /\ pc' = "decoded"
    /\ UNCHANGED <<now, storeVars, passVars, dlVars, polVars, cliVars, filename, origin>>

NextCodec == Encode \/ Assemble \/ Decode

SpecCodec == InitCodec /\ [][NextCodec]_vars

-----------------------------------------------------------------------------
(* C1: round trip of generated names                                       *)

\* C1: for every registered kind and every date, the decoders applied to
\* generate_filename(kind, date) return that date (and the age now - date),
\* never None.
C1_RoundTrip ==
    (pc = "decoded" /\ origin.how = "encoded") =>
        /\ decoded.date = Some(origin.date)
        /\ decoded.age_local = Some(AgeDays(now, origin.date))
        /\ decoded.age_remote = Some(AgeDays(now, origin.date))

\* C1 on the kinds whose name holds no hyphen: there the round trip holds
C1_RoundTripPlainKinds ==
    (pc = "decoded" /\ origin.how = "encoded" /\ origin.kind # QuickCryptic) =>
        /\ decoded.date = Some(origin.date)
        /\ decoded.age_local = Some(AgeDays(now, origin.date))
        /\ decoded.age_remote = Some(AgeDays(now, origin.date))

-----------------------------------------------------------------------------
(* C2: names that are not canonical                                        *)

\* name is guardian-{kind}-{YYYYMMDD}.pdf for a registered kind and a real date
IsCanonicalName(name) ==
    \E kind \in DOMAIN GUARDIAN_PUZZLE_TYPES :
        LET head == GuardianPrefix \o kind \o <<"-">>
        IN  /\ Len(name) = Len(head) + 8 + Len(DotPdf)
            /\ SubSeq(name, 1, Len(head)) = head
            /\ SubSeq(name, Len(head) + 9, Len(name)) = DotPdf
            /\ \A i \in 1..8 : name[Len(head) + i] \in DigitChars
            /\ IsDate(Num(SubSeq(name, Len(head) + 1, Len(head) + 4)),
                      Num(SubSeq(name, Len(head) + 5, Len(head) + 6)),
                      Num(SubSeq(name, Len(head) + 7, Len(head) + 8)))

AllNone(dec) == dec.date = None /\ dec.age_local = None /\ dec.age_remote = None

NoneRaised(dec) == ~Raised(dec.date) /\ ~Raised(dec.age_local) /\ ~Raised(dec.age_remote)

\* C2 as stated: every name that is not canonical decodes to None in all
\* three decoders, and none of them raises.
C2_NonCanonicalIsNone ==
    (pc = "decoded" /\ ~IsCanonicalName(filename)) =>
        NoneRaised(decoded) /\ AllNone(decoded)

\* the date whose strftime('%Y%m%d') is stem
DateOfStem(stem) == CHOOSE d \in {<<2025, 1, 15>>, <<2024, 2, 29>>} : strftime_Ymd(d) = stem

\* the token list starts with guardian, has a third token, and that token is
\* 8 digits of a real date with no extension or with .pdf
ThirdTokenIsDate(ts) ==
    /\ Len(ts) >= 3
    /\ ts[1] = Token(Guardian, <<>>)
    /\ ts[3].stem \in GoodStems
    /\ ts[3].ext \in {<<>>, DotPdf}

\* C2 (amended): no decoder ever raises; a name decodes to None whenever it
\* does not start with guardian-, has fewer than three '-'-separated parts,
\* or its third part (with .pdf removed) is not 8 digits of a real date; a
\* name whose third part is such a date decodes to that date even when the
\* .pdf extension is missing or further parts follow.
C2_DecodeByThirdPart ==
    (pc = "decoded" /\ origin.how = "tokens") =>
        /\ NoneRaised(decoded)
        /\ IF ThirdTokenIsDate(origin.tokens)
           THEN /\ decoded.date = Some(DateOfStem(origin.tokens[3].stem))
                /\ decoded.age_local = Some(AgeDays(now, DateOfStem(origin.tokens[3].stem)))
                /\ decoded.age_remote = decoded.age_local
           ELSE AllNone(decoded)

\* C2 witness: guardian-quick-20250230.pdf (strptime raises inside the try
\* block) has been decoded, to None
C2_Witness ==
    /\ pc = "decoded"
    /\ origin.how = "tokens"
    /\ origin.tokens = <<Token(Guardian, <<>>), Token(Quick, <<>>),
                         Token(<<"2", "0", "2", "5", "0", "2", "3", "0">>, DotPdf)>>
    /\ ~IsCanonicalName(filename)
    /\ AllNone(decoded)

-----------------------------------------------------------------------------
(* Cleanup passes of the two store adapters                                *)

\* greatest number of files in the two stores together
MaxFiles == 3

\* the file-count caps a process may be configured with
FileCaps == {1, 2}

\* greatest number of answers read at one confirmation prompt
MaxPrompts == 2

\* what input() may give at the prompt: text, or KeyboardInterrupt
Inputs ==
    { Some(<<"y">>), Some(<<" ", "Y", "E", "S", " ">>),
      Some(<<"n">>), Some(<<"N", "o">>), Some(<<>>), Some(<<" ">>),
      Some(<<"y", "e">>),
      Raise("KeyboardInterrupt") }

Init ==
    /\ now \in NowDates
    /\ MAX_LOCAL_FILES \in FileCaps
    /\ MAX_CLOUD_FILES \in FileCaps
    /\ localDir \in {S \in SUBSET StoreNames : Cardinality(S) <= MaxFiles}
    /\ remoteDir \in {S \in SUBSET StoreNames :
                        Cardinality(S) <= MaxFiles - Cardinality(localDir)}
    /\ authenticated \in BOOLEAN   \* False from __init__, True once authenticate() has succeeded
    /\ pc = "idle"
    /\ NoPass
    /\ NoCodec
    /\ NoDownload
    /\ NoPolicy
    /\ NoCli

\* faulty variant: the result of _confirm_deletion is ignored
ProceedAlways(confirmed) == "delete"

\* if not self._confirm_deletion(...): return 0 -- where the pass goes on the
\* result of the confirmation
AfterConfirm(confirmed) == IF confirmed THEN "delete" ELSE "done"

\* faulty variant of StartPass: auto_confirm is looked at before dry_run
StartPassAutoFirst(adp, ac, dr, dir, listing, removal) ==
    /\ adapter' = adp
    /\ auto_confirm' = ac
    /\ dry_run' = dr
    /\ dirAtStart' = dir
    /\ files' = listing
    /\ files_to_remove' = removal
    /\ idx' = 1
    /\ removed_count' = 0
    /\ prompts' = <<>>
    /\ calls' = <<>>
    /\ IF removal = <<>>
       THEN gate' = <<>> /\ ret' = Some(0) /\ pc' = "done"
       ELSE IF ac
       THEN gate' = <<"approved">> /\ ret' = None /\ pc' = AfterConfirm(TRUE)
       ELSE IF dr
       THEN gate' = <<"dry_run">> /\ ret' = Some(Len(removal)) /\ pc' = "done"
       ELSE gate' = <<>> /\ ret' = None /\ pc' = "prompt"

\* cleanup_old_files from its listing up to the confirmation: the pass ends
\* at once (empty listing, nothing to remove, dry run), is approved at once
\* (auto_confirm), or blocks in input()
StartPass(adp, ac, dr, dir, listing, removal) ==
    /\ adapter' = adp
    /\ auto_confirm' = ac
    /\ dry_run' = dr
    /\ dirAtStart' = dir
    /\ files' = listing
    /\ files_to_remove' = removal
    /\ idx' = 1
    /\ removed_count' = 0
    /\ prompts' = <<>>
    /\ calls' = <<>>
    /\ IF removal = <<>>
       THEN gate' = <<>> /\ ret' = Some(0) /\ pc' = "done"
       ELSE IF dr
       THEN gate' = <<"dry_run">> /\ ret' = Some(Len(removal)) /\ pc' = "done"
       ELSE IF ac
       THEN gate' = <<"approved">> /\ ret' = None /\ pc' = AfterConfirm(TRUE)
       ELSE gate' = <<>> /\ ret' = None /\ pc' = "prompt"

\* FileManager.cleanup_old_files(auto_confirm, dry_run), up to the confirmation
LocalCleanupBegin ==
    /\ pc = "idle"
    /\ \E ac \in BOOLEAN, dr \in BOOLEAN :
         LET listing == get_local_files(localDir)
         IN  StartPass("local", ac, dr, localDir, listing,
                       IF listing = <<>> THEN <<>>
                       ELSE LocalFilesToRemove(listing, now, LOCAL_RETENTION_DAYS,
                                               MAX_LOCAL_FILES))
    /\ UNCHANGED <<now, storeVars, codecVars, dlVars, polVars, cliVars>>

\* SuperNoteClient.list_files: the entries of the directory, or [] when ls raises
list_files(dir, lsOk) == IF lsOk THEN Sorted(dir) ELSE <<>>

\* faulty variant: the flag is not looked at
ensure_authenticated_unchecked(flag) == Some(TRUE)

\* SuperNoteClient.ensure_authenticated: True, or RuntimeError raised
ensure_authenticated(flag) == IF flag THEN Some(TRUE) ELSE Raise("RuntimeError")

\* SuperNoteClient.cleanup_old_files(auto_confirm, dry_run), up to the
\* confirmation; called unauthenticated it raises before anything else
RemoteCleanupBegin ==
    /\ pc = "idle"
    /\ \E ac \in BOOLEAN, dr \in BOOLEAN, lsOk \in BOOLEAN :
         IF Raised(ensure_authenticated(authenticated))
         THEN /\ adapter' = "remote"
              /\ auto_confirm' = ac
              /\ dry_run' = dr
              /\ dirAtStart' = remoteDir
              /\ ret' = ensure_authenticated(authenticated)
              /\ pc' = "done"
              /\ UNCHANGED <<files, files_to_remove, idx, removed_count, gate,
                             prompts, calls>>
         ELSE LET listing == list_files(remoteDir, lsOk)
              IN  StartPass("remote", ac, dr, remoteDir, listing,
                            IF listing = <<>> THEN <<>>
                            ELSE RemoteFilesToRemove(listing, now, CLOUD_RETENTION_DAYS,
                                                     MAX_CLOUD_FILES))
    /\ UNCHANGED <<now, storeVars, codecVars, dlVars, polVars, cliVars>>

\* one turn of the prompt loop of _confirm_deletion: input() returns or is
\* interrupted
Answer ==
    /\ pc = "prompt"
    /\ Len(prompts) < MaxPrompts
    /\ \E inp \in Inputs :
         LET branch == IF adapter = "local" THEN FileManager_confirm_turn(inp)
                       ELSE SuperNoteClient_confirm_turn(inp)
         IN  /\ prompts' = Append(prompts, inp)
             /\ IF branch = "approved"
                THEN /\ gate' = Append(gate, "approved")
                     /\ pc' = AfterConfirm(TRUE)
                     /\ ret' = ret
                ELSE IF branch = "rejected"
                THEN /\ gate' = Append(gate, "rejected")
                     /\ pc' = AfterConfirm(FALSE)
                     /\ ret' = IF AfterConfirm(FALSE) = "done" THEN Some(0) ELSE ret
                ELSE gate' = gate /\ pc' = pc /\ ret' = ret
    /\ UNCHANGED <<now, storeVars, codecVars, dlVars, polVars, cliVars,
                   adapter, auto_confirm, dry_run, files,
                   files_to_remove, idx, removed_count, calls, dirAtStart>>

\* faulty variant: the loop is left at the first delete that fails
AfterDeleteStopOnFailure(count) ==
    IF idx < Len(files_to_remove) /\ count > removed_count
    THEN idx' = idx + 1 /\ pc' = pc /\ ret' = ret
    ELSE idx' = idx /\ pc' = "done" /\ ret' = Some(count)

\* the loop position after the delete at idx: the next name, or the return
AfterDelete(count) ==
    IF idx < Len(files_to_remove)
    THEN idx' = idx + 1 /\ pc' = pc /\ ret' = ret
    ELSE idx' = idx /\ pc' = "done" /\ ret' = Some(count)

\* one turn of the delete loop: os.remove / client.delete on the next name
\* succeeds, or raises and is caught; after the last name the pass returns
Delete ==
    /\ pc = "delete"
    /\ \E ok \in BOOLEAN :
         LET name == files_to_remove[idx]
             count == IF ok THEN removed_count + 1 ELSE removed_count
         IN  /\ calls' = Append(calls, <<"delete", name, ok>>)
             /\ removed_count' = count
             /\ IF adapter = "local"
                THEN /\ localDir' = IF ok THEN localDir \ {name} ELSE localDir
                     /\ remoteDir' = remoteDir
                ELSE /\ remoteDir' = IF ok THEN remoteDir \ {name} ELSE remoteDir
                     /\ localDir' = localDir
             /\ AfterDelete(count)
    /\ UNCHANGED <<now, MAX_LOCAL_FILES, MAX_CLOUD_FILES, authenticated, codecVars, dlVars,
                   polVars, cliVars,
                   adapter, auto_confirm, dry_run, files, files_to_remove, gate,
                   prompts, dirAtStart>>

\* the pass has returned; the process is ready for the next operation
Finish ==
    /\ pc = "done"
    /\ pc' = "idle"
    /\ adapter' = "none"
    /\ auto_confirm' = FALSE
    /\ dry_run' = FALSE
    /\ files' = <<>>
    /\ files_to_remove' = <<>>
    /\ idx' = 0
    /\ removed_count' = 0
    /\ ret' = None
    /\ gate' = <<>>
    /\ prompts' = <<>>
    /\ calls' = <<>>
    /\ dirAtStart' = {}
    /\ UNCHANGED <<now, storeVars, codecVars, dlVars, polVars, cliVars>>

Next ==
    \/ LocalCleanupBegin
    \/ RemoteCleanupBegin
    \/ Answer
    \/ Delete
    \/ Finish

Spec == Init /\ [][Next]_vars

-----------------------------------------------------------------------------
(* The running pass, as the claims speak of it                             *)

\* a pass has taken its listing (it is running or has returned a count)
InPass == adapter # "none" /\ ~Raised(ret)

\* the age the running adapter decodes from a name: <<age>> or None
AgeOf(name) == IF adapter = "local" THEN LocalAge(name, now) ELSE RemoteAge(name, now)

\* the limits of the running adapter
MaxAgeDays == IF adapter = "local" THEN LOCAL_RETENTION_DAYS ELSE CLOUD_RETENTION_DAYS

MaxCount == IF adapter = "local" THEN MAX_LOCAL_FILES ELSE MAX_CLOUD_FILES

Listed == {files[i] : i \in 1..Len(files)}

ToRemove == {files_to_remove[i] : i \in 1..Len(files_to_remove)}

KnownAge == {f \in Listed : AgeOf(f) # None}

AgeViolators == {f \in KnownAge : AgeOf(f)[1] > MaxAgeDays}

\* the store the running adapter works on
CurrentDir == IF adapter = "local" THEN localDir ELSE remoteDir

-----------------------------------------------------------------------------
(* C3 - C6: the deletion list                                              *)

\* C3: in the local and in the remote pass, no file whose age decodes to
\* None is in the deletion list, whatever the listing and the limits.
C3_UnknownAgeNeverSelected ==
    InPass => \A f \in ToRemove : AgeOf(f) # None

\* C3 witness: a pass whose listing holds a file of unknown age, with more
\* files than the cap, has selected something (so the count pass ran)
C3_Witness ==
    /\ InPass
    /\ Len(files) > MaxCount
    /\ \E f \in Listed : AgeOf(f) = None
    /\ \E f \in ToRemove : f \notin AgeViolators

\* C4: when the listing holds at most max_count files, the deletion list is
\* exactly the files of known age > max_age_days (a file whose age equals
\* max_age_days is kept; the list is empty when no file is older).
C4_AgePassOnly ==
    (InPass /\ Len(files) <= MaxCount) => ToRemove = AgeViolators

\* C4 witness: a listing within the cap with a file older than the limit and a
\* file exactly at the limit: the first is selected, the second kept
C4_Witness ==
    /\ InPass
    /\ Len(files) <= MaxCount
    /\ \E f \in ToRemove : AgeOf(f)[1] > MaxAgeDays
    /\ \E f \in Listed \ ToRemove : AgeOf(f) = Some(MaxAgeDays)

\* the number of files the count pass takes: the excess over the cap, or all
\* files of known age when they are fewer
CountTaken ==
    IF Len(files) - MaxCount < Cardinality(KnownAge)
    THEN Len(files) - MaxCount ELSE Cardinality(KnownAge)

\* C5: when the listing holds more than max_count files, the deletion list
\* is the union of the age violators and the |files| - max_count oldest
\* files of known age (all of them when they are fewer than that).
C5_AgeAndCountUnion ==
    (InPass /\ Len(files) > MaxCount) =>
        \E T \in SUBSET KnownAge :
            /\ Cardinality(T) = CountTaken
            /\ \A t \in T, u \in KnownAge \ T : AgeOf(t)[1] >= AgeOf(u)[1]
            /\ ToRemove = AgeViolators \cup T

\* C5 witness: a listing over the cap with files of different known ages and
\* no age violator: only the oldest are selected, a younger one is kept
C5_Witness ==
    /\ InPass
    /\ Len(files) > MaxCount
    /\ AgeViolators = {}
    /\ ToRemove # {}
    /\ \E u \in KnownAge \ ToRemove : \A t \in ToRemove : AgeOf(t)[1] > AgeOf(u)[1]

\* C6: the deletion list never holds the same name twice.
C6_NoDuplicates ==
    InPass => \A i, j \in 1..Len(files_to_remove) :
                  files_to_remove[i] = files_to_remove[j] => i = j

\* C6 witness: a file that is an age violator and also the oldest file of a
\* listing over the cap (so both passes pick it) is in the list
C6_Witness ==
    /\ InPass
    /\ Len(files) > MaxCount
    /\ \E f \in AgeViolators :
         /\ f \in ToRemove
         /\ \A u \in KnownAge \ {f} : AgeOf(u)[1] < AgeOf(f)[1]

-----------------------------------------------------------------------------
(* C7 - C10: confirmation and the delete loop                              *)

\* C7: in every pass the confirmation decision (dry run, auto-confirm or the
\* answer at the prompt) is taken at most once, exactly once when the
\* deletion list is not empty and the pass has ended, and before any delete
\* call; a delete call is issued only in a pass whose decision was approval.
C7_ConfirmOnceBeforeDelete ==
    /\ [](InPass =>
            /\ Len(gate) <= 1
            /\ (pc = "delete" \/ calls # <<>>) => gate = <<"approved">>
            /\ (pc = "done" /\ files_to_remove # <<>>) => Len(gate) = 1)
    /\ [][Len(calls') > Len(calls) => (gate = <<"approved">> /\ gate' = gate)]_vars
    /\ [][(gate # <<>> /\ adapter' = adapter) => gate' = gate]_vars

\* C7 witness: an interactive pass that asked twice, was approved and has
\* issued a delete call
C7_Witness ==
    /\ InPass
    /\ Len(prompts) = 2
    /\ gate = <<"approved">>
    /\ calls # <<>>

\* C8: a pass run with dry_run=True on a non-empty deletion list issues no
\* delete call, leaves the store as it was, reads no answer, and returns the
\* length of the deletion list, whatever auto_confirm is.
C8_DryRunDeletesNothing ==
    (InPass /\ dry_run /\ files_to_remove # <<>>) =>
        /\ calls = <<>>
        /\ CurrentDir = dirAtStart
        /\ prompts = <<>>
        /\ pc = "done"
        /\ ret = Some(Len(files_to_remove))

\* C8 witness: a dry run with auto_confirm set has returned on a deletion
\* list of two names
C8_Witness ==
    /\ InPass
    /\ dry_run
    /\ auto_confirm
    /\ Len(files_to_remove) = 2
    /\ pc = "done"

\* answers that approve, that reject, and that are not recognized
YesInputs == {Some(<<"y">>), Some(<<" ", "Y", "E", "S", " ">>)}

NoInputs ==
    {Some(<<"n">>), Some(<<"N", "o">>), Some(<<>>), Some(<<" ">>),
     Raise("KeyboardInterrupt")}

OtherInputs == Inputs \ (YesInputs \cup NoInputs)

\* a pass that asks at the prompt
Interactive == InPass /\ ~auto_confirm /\ ~dry_run /\ files_to_remove # <<>>

\* C9: in an interactive pass every answer before the last was unrecognized;
\* while no recognized answer has come the pass stays at the prompt with no
\* delete call and no result; if the first recognized answer is n, no, empty
\* or an interrupt the pass has ended with no delete call and returned 0; if
\* it is y or yes (any case, surrounding blanks ignored) the pass is in its
\* delete loop, and has issued delete calls when it ends.
C9_InteractiveAnswers ==
    Interactive =>
        LET n == Len(prompts)
        IN  /\ \A i \in 1..(n - 1) : prompts[i] \in OtherInputs
            /\ (n = 0 \/ prompts[n] \in OtherInputs) =>
                   (pc = "prompt" /\ calls = <<>> /\ ret = None /\ gate = <<>>)
            /\ (n > 0 /\ prompts[n] \in NoInputs) =>
                   (pc = "done" /\ calls = <<>> /\ ret = Some(0))
            /\ (n > 0 /\ prompts[n] \in YesInputs) =>
                   /\ pc \in {"delete", "done"}
                   /\ pc = "delete" => Len(calls) < Len(files_to_remove)
                   /\ pc = "done" => calls # <<>>

\* C9 witness: the answers were "ye" and then " YES ", and the pass has ended
\* after issuing delete calls
C9_Witness ==
    /\ Interactive
    /\ prompts = <<Some(<<"y", "e">>), Some(<<" ", "Y", "E", "S", " ">>)>>
    /\ pc = "done"
    /\ calls # <<>>

\* the number of delete calls so far that succeeded
Succeeded == Cardinality({i \in 1..Len(calls) : calls[i][3]})

\* C10: in an approved pass the delete calls go through the deletion list in
\* order, one call per name whether or not earlier calls failed; when the
\* pass ends every name has had its call and the returned count is the
\* number of calls that succeeded.
C10_EveryNameTriedCountSuccesses ==
    (InPass /\ gate = <<"approved">>) =>
        /\ Len(calls) <= Len(files_to_remove)
        /\ \A i \in 1..Len(calls) :
               calls[i][1] = "delete" /\ calls[i][2] = files_to_remove[i]
        /\ removed_count = Succeeded
        /\ pc = "delete" => (ret = None /\ Len(calls) = idx - 1)
        /\ pc = "done" => (Len(calls) = Len(files_to_remove) /\ ret = Some(Succeeded))

\* C10 witness: the first delete call failed, the second succeeded, and the
\* pass has ended
C10_Witness ==
    /\ InPass
    /\ gate = <<"approved">>
    /\ pc = "done"
    /\ Len(calls) >= 2
    /\ ~calls[1][3]
    /\ calls[2][3]

-----------------------------------------------------------------------------
(* C18, C20: future-dated files, a second pass                             *)

\* C18 as stated: a file whose age is negative is never in the deletion list.
C18_FutureNeverSelected ==
    InPass => \A f \in ToRemove : AgeOf(f)[1] >= 0

\* C18 (amended): a file whose age is negative is never selected when the
\* listing is within the cap (the age pass never takes it); over the cap it
\* is selected only together with every listed file of known greater age.
C18_FutureOnlyAsLastOfCount ==
    InPass => \A f \in ToRemove :
                  AgeOf(f)[1] < 0 =>
                      /\ Len(files) > MaxCount
                      /\ f \notin AgeViolators
                      /\ \A u \in KnownAge : AgeOf(u)[1] > AgeOf(f)[1] => u \in ToRemove

\* C18 witness: over the cap, a future-dated file is selected along with an
\* older file that is within the age limit
C18_Witness ==
    /\ InPass
    /\ \E f \in ToRemove : AgeOf(f)[1] < 0
    /\ \E u \in ToRemove \ AgeViolators : AgeOf(u)[1] >= 0

\* the deletion lists a pass of the running adapter would compute on the
\* store as it is now (for the remote store: whether or not ls succeeds)
NextPassRemovals ==
    IF adapter = "local"
    THEN LET listing == get_local_files(localDir)
         IN  {IF listing = <<>> THEN <<>>
              ELSE LocalFilesToRemove(listing, now, LOCAL_RETENTION_DAYS,
                                      MAX_LOCAL_FILES)}
    ELSE {LET listing == list_files(remoteDir, lsOk)
          IN  IF listing = <<>> THEN <<>>
              ELSE RemoteFilesToRemove(listing, now, CLOUD_RETENTION_DAYS,
                                       MAX_CLOUD_FILES) : lsOk \in BOOLEAN}

\* an approved pass has returned and every delete call succeeded
CleanPassDone ==
    /\ InPass
    /\ gate = <<"approved">>
    /\ pc = "done"
    /\ \A i \in 1..Len(calls) : calls[i][3]

\* C20: when an approved pass has ended with every delete call successful, a
\* pass of the same adapter over the store as it then is, with the same
\* limits and date, computes an empty deletion list.
C20_SecondPassEmpty ==
    CleanPassDone => NextPassRemovals = {<<>>}

\* C20 witness: such a pass ran its count pass and has left more files than
\* the cap (the files left are of unknown age)
C20_Witness ==
    /\ CleanPassDone
    /\ Len(files) > MaxCount
    /\ calls # <<>>
    /\ Cardinality(CurrentDir) > MaxCount

-----------------------------------------------------------------------------
(* C21: the count cap after a pass                                         *)

\* the listed names still in the store
Remaining == Listed \cap CurrentDir

\* C21 as stated: after an approved pass in which every delete call
\* succeeded, at most the configured maximum of the listed files remain.
C21_CapEnforced ==
    CleanPassDone => Cardinality(Remaining) <= MaxCount

\* C21 (amended): after an approved pass in which every delete call
\* succeeded, the listed files that remain are at most the configured
\* maximum, or at most the listed files of unknown age if these are more:
\* when more than the maximum remain, every file remaining is of unknown age.
C21_CapEnforcedUpToUnknownAge ==
    CleanPassDone =>
        /\ Cardinality(Remaining) <= MaxCount \/
           Cardinality(Remaining) <= Cardinality(Listed \ KnownAge)
        /\ Cardinality(Remaining) > MaxCount => Remaining \cap KnownAge = {}
        /\ Remaining = Listed \ ToRemove

\* C21 witness: such a pass over a listing above the cap removed a file that
\* was within the age limit, and the files left are within the cap
C21_Witness ==
    /\ CleanPassDone
    /\ Len(files) > MaxCount
    /\ ToRemove \ AgeViolators # {}
    /\ Remaining # {}
    /\ Cardinality(Remaining) <= MaxCount

-----------------------------------------------------------------------------
(* download_crossword and download_with_retries                            *)

\* target dates: a week across a month end, a year start, a leap day
TargetDates ==
    { <<2025, 3, 1>>, <<2025, 3, 2>>, <<2025, 3, 3>>, <<2025, 3, 4>>,
      <<2025, 3, 5>>, <<2025, 3, 6>>, <<2025, 3, 7>>,
      <<2025, 1, 1>>, <<2024, 3, 1>>, <<2024, 12, 2>> }

DownloadKinds == DOMAIN GUARDIAN_PUZZLE_TYPES \cup {Sudoku}

\* what one pass through the try block of download_with_retries can come to:
\* a PDF body, a body that is no PDF, a RequestException (connection, timeout,
\* HTTP status), or another exception (the file cannot be written)
GetOutcomes == {"pdf", "not_pdf", "RequestException", "Exception"}

\* the names download_crossword may look for
CandidateNames(kind, date) ==
    LET fd == get_fallback_dates(kind, date)
    IN  {generate_filename(kind, fd[i]) : i \in 1..Len(fd)}

InitDownload ==
    /\ now \in NowDates
    /\ MAX_LOCAL_FILES = 1
    /\ MAX_CLOUD_FILES = 1
    /\ remoteDir = {}
    /\ authenticated = FALSE
    /\ pc = "dl_idle"
    /\ NoPass
    /\ NoCodec
    /\ dl_puzzle_type \in DownloadKinds
    /\ dl_target_date \in TargetDates
    /\ localDir \in SUBSET CandidateNames(dl_puzzle_type, dl_target_date)
    /\ junk \in SUBSET localDir
    /\ fallback_dates = <<>>
    /\ dateIdx = 0
    /\ attempt = 0
    /\ gets = <<>>
    /\ sleeps = 0
    /\ tried = <<>>
    /\ dlret = None
    /\ NoPolicy
    /\ NoCli

\* get_fallback_dates called on its own
GetFallbackDates ==
    /\ pc = "dl_idle"
    /\ fallback_dates' = get_fallback_dates(dl_puzzle_type, dl_target_date)
    /\ pc' = "fb_done"
    /\ UNCHANGED <<now, storeVars, passVars, codecVars, polVars, cliVars, junk, dl_puzzle_type,
                   dl_target_date, dateIdx, attempt, gets, sleeps, tried, dlret>>

\* download_crossword up to its loop: unknown kind and no fallback date
\* return None
DownloadBegin ==
    /\ pc = "dl_idle"
    /\ IF dl_puzzle_type \notin DOMAIN GUARDIAN_PUZZLE_TYPES
       THEN fallback_dates' = <<>> /\ dateIdx' = 0 /\ pc' = "dl_done"
       ELSE LET fd == get_fallback_dates(dl_puzzle_type, dl_target_date)
            IN  /\ fallback_dates' = fd
                /\ IF fd = <<>>
                   THEN dateIdx' = 0 /\ pc' = "dl_done"
                   ELSE dateIdx' = 1 /\ pc' = "dl_date"
    /\ UNCHANGED <<now, storeVars, passVars, codecVars, polVars, cliVars, junk, dl_puzzle_type,
                   dl_target_date, attempt, gets, sleeps, tried, dlret>>

\* faulty variant: the file is taken as it is, without looking at its header
ExistsOnly(name, dir, bad) == name \in dir

\* os.path.exists(filepath) and self.validate_pdf(filepath)
ExistsAndValid(name, dir, bad) == name \in dir /\ name \notin bad

\* the name download_crossword is working on
CurrentName == generate_filename(dl_puzzle_type, fallback_dates[dateIdx])

\* what is noted of a fallback date when the loop is done with it
TriedEntry(result) ==
    [date |-> fallback_dates[dateIdx], gets |-> gets', sleeps |-> sleeps',
     result |-> result]

\* the loop of download_crossword after a date that gave nothing: the next
\* date, or return None after the last
NextDate ==
    IF dateIdx < Len(fallback_dates)
    THEN dateIdx' = dateIdx + 1 /\ pc' = "dl_date" /\ dlret' = None
    ELSE dateIdx' = dateIdx /\ pc' = "dl_done" /\ dlret' = None

\* top of the loop body of download_crossword: a valid file that is already
\* there is returned, otherwise download_with_retries starts
TryDate ==
    /\ pc = "dl_date"
    /\ gets' = <<>>
    /\ sleeps' = 0
    /\ attempt' = 0
    /\ IF ExistsAndValid(CurrentName, localDir, junk)
       THEN /\ tried' = Append(tried, TriedEntry("exists"))
            /\ dlret' = Some(CurrentName)
            /\ pc' = "dl_done"
       ELSE /\ tried' = tried
            /\ dlret' = None
            /\ pc' = "dl_get"
    /\ UNCHANGED <<now, storeVars, passVars, codecVars, polVars, cliVars, junk, dl_puzzle_type,
                   dl_target_date, fallback_dates, dateIdx>>

\* faulty variant: one attempt too many
RetryAfterFailureOffByOne(att) == att < MAX_RETRIES

\* except RequestException: if attempt < MAX_RETRIES - 1: sleep, and go round
RetryAfterFailure(att) == att < MAX_RETRIES - 1

\* one pass through the loop body of download_with_retries
Get ==
    /\ pc = "dl_get"
    /\ \E outcome \in GetOutcomes :
         /\ gets' = Append(gets, outcome)
         /\ IF outcome = "RequestException" /\ RetryAfterFailure(attempt)
            THEN /\ sleeps' = sleeps + 1
                 /\ attempt' = attempt + 1
                 /\ UNCHANGED <<localDir, junk, tried, dateIdx, pc, dlret>>
            ELSE /\ sleeps' = sleeps
                 /\ attempt' = attempt
                 /\ IF outcome = "pdf"
                    THEN /\ localDir' = localDir \cup {CurrentName}
                         /\ junk' = junk \ {CurrentName}
                         /\ tried' = Append(tried, TriedEntry("downloaded"))
                         /\ dlret' = Some(CurrentName)
                         /\ dateIdx' = dateIdx
                         /\ pc' = "dl_done"
                    ELSE /\ IF outcome = "not_pdf"
                            THEN /\ localDir' = localDir \ {CurrentName}
                                 /\ junk' = junk \ {CurrentName}
                            ELSE UNCHANGED <<localDir, junk>>
                         /\ tried' = Append(tried, TriedEntry("failed"))
                         /\ NextDate
    /\ UNCHANGED <<now, MAX_LOCAL_FILES, MAX_CLOUD_FILES, remoteDir, authenticated,
                   passVars, codecVars, polVars, cliVars, dl_puzzle_type,
                   dl_target_date, fallback_dates>>

NextDownload == GetFallbackDates \/ DownloadBegin \/ TryDate \/ Get

SpecDownload == InitDownload /\ [][NextDownload]_vars

\* the calls are blocking and return: a download that can take a step takes it
SpecDownloadFair == SpecDownload /\ WF_vars(NextDownload)

-----------------------------------------------------------------------------
(* C11: the fallback dates                                                 *)

\* the calendar days of the years the targets lie in and the year before
AllDates ==
    {dt \in (2023..2025) \X (1..12) \X (1..31) : IsDate(dt[1], dt[2], dt[3])}

\* the days of the window [target - (FALLBACK_DAYS - 1), target] on which the
\* kind is published
PublishedInWindow ==
    {d \in AllDates :
        /\ toordinal(dl_target_date) - toordinal(d) \in 0..(FALLBACK_DAYS - 1)
        /\ dl_puzzle_type \in DOMAIN GUARDIAN_PUZZLE_TYPES
        /\ weekday(d) \in GUARDIAN_PUZZLE_TYPES[dl_puzzle_type]}

-----------------------------------------------------------------------------
(* C15, C16: validation failure, retries                                   *)

\* the name of the file of a fallback date
NameOf(date) == generate_filename(dl_puzzle_type, date)

RECURSIVE GetsOfTried(_)
GetsOfTried(t) == IF t = <<>> THEN 0 ELSE Len(Head(t).gets) + GetsOfTried(Tail(t))

TotalGets == GetsOfTried(tried) + (IF pc = "dl_get" THEN Len(gets) ELSE 0)

\* the bounds of C16 in one state
RetriesBounded ==
    /\ Len(gets) <= MAX_RETRIES
    /\ pc = "dl_get" =>
         /\ Len(gets) < MAX_RETRIES
         /\ sleeps = Len(gets)
         /\ \A i \in 1..Len(gets) : gets[i] = "RequestException"
    /\ \A k \in 1..Len(tried) :
         /\ Len(tried[k].gets) <= MAX_RETRIES
         /\ tried[k].result # "exists" =>
              /\ tried[k].gets # <<>>
              /\ tried[k].sleeps = Len(tried[k].gets) - 1
              /\ \A i \in 1..(Len(tried[k].gets) - 1) :
                     tried[k].gets[i] = "RequestException"
         /\ tried[k].result = "exists" => (tried[k].gets = <<>> /\ tried[k].sleeps = 0)
         /\ (Len(tried[k].gets) = MAX_RETRIES
             /\ tried[k].gets[MAX_RETRIES] = "RequestException") =>
                tried[k].result = "failed"
    /\ TotalGets <= FALLBACK_DAYS * MAX_RETRIES
    /\ ~Raised(dlret)

\* C16: download_with_retries issues at most MAX_RETRIES GET requests for a
\* URL, sleeps once after every failed attempt but the last, and fails when
\* the last attempt fails; download_crossword issues at most FALLBACK_DAYS *
\* MAX_RETRIES GET requests, and every download returns (a path or None,
\* never an exception).
C16_RetriesBoundedAndTerminate ==
    /\ []RetriesBounded
    /\ (pc = "dl_idle") ~> (pc \in {"dl_done", "fb_done"})
    /\ (pc = "dl_get") ~> (pc \in {"dl_date", "dl_done"})

\* C16 witness: FALLBACK_DAYS * MAX_RETRIES requests have all failed and the
\* download has returned None
C16_Witness ==
    /\ pc = "dl_done"
    /\ dlret = None
    /\ TotalGets = FALLBACK_DAYS * MAX_RETRIES
    /\ \A k \in 1..Len(tried) : tried[k].sleeps = MAX_RETRIES - 1

-----------------------------------------------------------------------------
(* The two adapters on the same store contents with the same limits        *)

\* the age limits the comparison is made with
PolicyAges == {LOCAL_RETENTION_DAYS, CLOUD_RETENTION_DAYS}

\* the names of a list
Names(l) == {l[i] : i \in 1..Len(l)}

\* both stores hold the same names, both caps are the same
InitPolicy ==
    /\ now \in NowDates
    /\ MAX_LOCAL_FILES \in FileCaps
    /\ MAX_CLOUD_FILES = MAX_LOCAL_FILES
    /\ localDir \in {S \in SUBSET StoreNames : Cardinality(S) <= MaxFiles}
    /\ remoteDir = localDir
    /\ authenticated = TRUE
    /\ pc = "policy"
    /\ NoPass
    /\ NoCodec
    /\ NoDownload
    /\ policy_age \in PolicyAges
    /\ policy_sel = [local |-> {}, remote |-> {}]
    /\ NoCli

\* the deletion lists the two cleanup_old_files compute from their listings
SelectBoth ==
    /\ pc = "policy"
    /\ LET local == get_local_files(localDir)
           remote == list_files(remoteDir, TRUE)
       IN  policy_sel' =
             [local |-> IF local = <<>> THEN {}
                        ELSE Names(LocalFilesToRemove(local, now, policy_age,
                                                      MAX_LOCAL_FILES)),
              remote |-> IF remote = <<>> THEN {}
                         ELSE Names(RemoteFilesToRemove(remote, now, policy_age,
                                                        MAX_CLOUD_FILES))]
    /\ pc' = "selected"
    /\ UNCHANGED <<now, storeVars, passVars, codecVars, dlVars, policy_age, cliVars>>

NextPolicy == SelectBoth

SpecPolicy == InitPolicy /\ [][NextPolicy]_vars

\* C19: on the same store contents, with the same age limit and the same cap,
\* the local and the remote cleanup_old_files select the same names.
C19_SameSelection ==
    pc = "selected" => policy_sel.local = policy_sel.remote

-----------------------------------------------------------------------------
(* The command line tool (cli.py main)                                     *)

\* the caps as config.py ships them
ShippedMaxLocalFiles == 150

ShippedMaxCloudFiles == 400

\* the kinds in the order of the registry
RegistryOrder == <<Quick, Cryptic, QuickCryptic, Weekend>>

\* GuardianDownloader.get_available_crosswords
get_available_crosswords(date) ==
    LET Available(k) == weekday(date) \in GUARDIAN_PUZZLE_TYPES[k]
    IN  SelectSeq(RegistryOrder, Available)

\* what download_crossword can make of one fallback date: the valid file is
\* there already; or a GET gave a PDF, a GET gave a body that is no PDF (the
\* file written is removed), or no GET gave a body
DateOutcomes(name, dir, bad) ==
    IF ExistsAndValid(name, dir, bad)
    THEN {[found |-> TRUE, dir |-> dir, bad |-> bad]}
    ELSE {[found |-> TRUE, dir |-> dir \cup {name}, bad |-> bad \ {name}],
          [found |-> FALSE, dir |-> dir \ {name}, bad |-> bad \ {name}],
          [found |-> FALSE, dir |-> dir, bad |-> bad]}

\* the loop of download_crossword from the i-th fallback date on
RECURSIVE DatesOutcomes(_, _, _, _, _)
DatesOutcomes(kind, fd, i, dir, bad) ==
    IF i > Len(fd) THEN {[ret |-> None, dir |-> dir, bad |-> bad]}
    ELSE LET name == generate_filename(kind, fd[i])
         IN  UNION {IF o.found
                    THEN {[ret |-> Some(name), dir |-> o.dir, bad |-> o.bad]}
                    ELSE DatesOutcomes(kind, fd, i + 1, o.dir, o.bad) :
                    o \in DateOutcomes(name, dir, bad)}

\* GuardianDownloader.download_crossword as one call: the results it can have
download_crossword(kind, date, dir, bad) ==
    IF kind \notin DOMAIN GUARDIAN_PUZZLE_TYPES
    THEN {[ret |-> None, dir |-> dir, bad |-> bad]}
    ELSE DatesOutcomes(kind, get_fallback_dates(kind, date), 1, dir, bad)

\* an entry of the log: a call op issued by `by` for `name`, and whether it
\* succeeded
Ev(op, by, name, ok) == <<op, by, name, ok>>

\* the delete calls of a delete loop over removal, those for names in okset
\* succeeding
CleanupCalls(op, by, removal, okset) ==
    [i \in 1..Len(removal) |-> Ev(op, by, removal[i], removal[i] \in okset)]

\* cleanup_old_files as one call, after its deletion list is made: None when
\* the delete loop does not run (nothing to remove, dry run, or the answer at
\* the prompt was no), else the names whose delete succeeds
PassDeletes(removal, ac, dr) ==
    IF removal = <<>> \/ dr
    THEN {None}
    ELSE {Some(S) : S \in SUBSET Names(removal)} \cup (IF ac THEN {} ELSE {None})

\* an old file that may lie in either store, and the newest file a download
\* run asks for
OldName == generate_filename(Quick, <<2024, 11, 1>>)

TargetName == generate_filename(Quick, <<2025, 2, 28>>)

dlLocals == <<dl_puzzle_type, fallback_dates, dateIdx, attempt, gets, sleeps, tried,
              dlret>>

InitCli ==
    /\ now \in NowDates
    /\ MAX_LOCAL_FILES = ShippedMaxLocalFiles
    /\ MAX_CLOUD_FILES = ShippedMaxCloudFiles
    /\ localDir \in SUBSET {OldName}
    /\ junk \in SUBSET localDir
    /\ remoteDir \in SUBSET {OldName, TargetName}
    /\ authenticated = FALSE
    /\ pc = "cli_main"
    /\ NoPass
    /\ NoCodec
    /\ NoPolicy
    /\ dl_puzzle_type = <<>>
    /\ dl_target_date \in CliTargetDates
    /\ fallback_dates = <<>>
    /\ dateIdx = 0
    /\ attempt = 0
    /\ gets = <<>>
    /\ sleeps = 0
    /\ tried = <<>>
    /\ dlret = None
    /\ args \in [info : BOOLEAN, cleanup : BOOLEAN, no_upload : BOOLEAN,
                 auto_cleanup : BOOLEAN, dry_run : BOOLEAN,
                 type : {None, Some(Quick)}]
    /\ credentials \in BOOLEAN
    /\ puzzle_types = <<>>
    /\ successful_downloads = <<>>
    /\ events = <<>>
    /\ exit = None

\* main returns
Return == exit' = Some("return") /\ pc' = "cli_exit"

\* the number of calls op logged so far
Count(op) == Cardinality({i \in 1..Len(events) : events[i][1] = op})

\* main, --info: print the storage summary and return
CliStart ==
    /\ pc = "cli_main"
    /\ IF args.info
       THEN /\ events' = Append(events, Ev("print_storage_info", "FileManager", <<>>, TRUE))
            /\ Return
       ELSE /\ events' = events
            /\ exit' = exit
            /\ pc' = "cli_local_cleanup"
    /\ UNCHANGED <<now, storeVars, passVars, codecVars, polVars, dlLocals, junk,
                   dl_target_date, args, credentials, puzzle_types,
                   successful_downloads>>

\* file_manager.cleanup_old_files(auto_confirm=args.auto_cleanup,
\* dry_run=args.dry_run)
CliLocalCleanup ==
    /\ pc = "cli_local_cleanup"
    /\ LET listing == get_local_files(localDir)
           removal == IF listing = <<>> THEN <<>>
                      ELSE LocalFilesToRemove(listing, now, LOCAL_RETENTION_DAYS,
                                              MAX_LOCAL_FILES)
       IN  \E d \in PassDeletes(removal, args.auto_cleanup, args.dry_run) :
             /\ events' = Append(events, Ev("cleanup_old_files", "FileManager", <<>>, TRUE))
                          \o (IF d = None THEN <<>>
                              ELSE CleanupCalls("os.remove", "FileManager.cleanup_old_files",
                                                removal, d[1]))
             /\ localDir' = IF d = None THEN localDir ELSE localDir \ d[1]
             /\ junk' = IF d = None THEN junk ELSE junk \ d[1]
    /\ pc' = "cli_invalid_files"
    /\ UNCHANGED <<now, MAX_LOCAL_FILES, MAX_CLOUD_FILES, remoteDir, authenticated,
                   passVars, codecVars, polVars, dlLocals, dl_target_date, args,
                   credentials, puzzle_types, successful_downloads, exit>>

\* file_manager.cleanup_invalid_files(): every listed file without the PDF
\* header is removed (a remove may fail)
CliInvalidFiles ==
    /\ pc = "cli_invalid_files"
    /\ LET listing == get_local_files(localDir)
           Invalid(f) == f \in junk
           invalid == SelectSeq(listing, Invalid)
       IN  \E okset \in SUBSET Names(invalid) :
             /\ events' = Append(events, Ev("cleanup_invalid_files", "FileManager", <<>>, TRUE))
                          \o CleanupCalls("os.remove", "FileManager.cleanup_invalid_files",
                                          invalid, okset)
             /\ localDir' = localDir \ okset
             /\ junk' = junk \ okset
    /\ IF args.cleanup
       THEN IF args.no_upload THEN Return
            ELSE exit' = exit /\ pc' = "cli_credentials"
       ELSE exit' = exit /\ pc' = "cli_types"
    /\ UNCHANGED <<now, MAX_LOCAL_FILES, MAX_CLOUD_FILES, remoteDir, authenticated,
                   passVars, codecVars, polVars, dlLocals, dl_target_date, args,
                   credentials, puzzle_types, successful_downloads>>

\* main: which puzzle types to download
CliTypes ==
    /\ pc = "cli_types"
    /\ puzzle_types' = IF args.type # None THEN <<args.type[1]>>
                       ELSE get_available_crosswords(dl_target_date)
    /\ IF puzzle_types' = <<>> THEN Return
       ELSE exit' = exit /\ pc' = "cli_download"
    /\ UNCHANGED <<now, storeVars, passVars, codecVars, polVars, dlLocals, junk,
                   dl_target_date, args, credentials, successful_downloads, events>>

\* faulty variant: the upload stage is entered after the first download
AfterDownloadFirst(done, total, got, no_upload) ==
    IF ~got \/ no_upload THEN "cli_exit" ELSE "cli_credentials"

\* main: where a turn of the download loop leads: the next puzzle type, the
\* return with nothing downloaded or with --no-upload, or the upload stage
AfterDownload(done, total, got, no_upload) ==
    IF done < total THEN "cli_download"
    ELSE IF ~got \/ no_upload THEN "cli_exit"
    ELSE "cli_credentials"

\* main: one turn of the loop over puzzle_types
CliDownload ==
    /\ pc = "cli_download"
    /\ LET k == puzzle_types[Count("download_crossword") + 1]
       IN  \E o \in download_crossword(k, dl_target_date, localDir, junk) :
             /\ localDir' = o.dir
             /\ junk' = o.bad
             /\ successful_downloads' =
                  IF o.ret # None THEN Append(successful_downloads, o.ret[1])
                  ELSE successful_downloads
             /\ events' = Append(events, Ev("download_crossword", "main", k, o.ret # None))
    /\ pc' = AfterDownload(Count("download_crossword") + 1, Len(puzzle_types),
                           successful_downloads' # <<>>, args.no_upload)
    /\ exit' = IF pc' = "cli_exit" THEN Some("return") ELSE exit
    /\ UNCHANGED <<now, MAX_LOCAL_FILES, MAX_CLOUD_FILES, remoteDir, authenticated,
                   passVars, codecVars, polVars, dlLocals, dl_target_date, args,
                   credentials, puzzle_types>>

\* load_credentials: sys.exit(1) when a credential is missing
CliCredentials ==
    /\ pc = "cli_credentials"
    /\ IF credentials
       THEN exit' = exit /\ pc' = "cli_authenticate"
       ELSE exit' = Some("sys.exit(1)") /\ pc' = "cli_exit"
    /\ UNCHANGED <<now, storeVars, passVars, codecVars, polVars, dlLocals, junk,
                   dl_target_date, args, credentials, puzzle_types,
                   successful_downloads, events>>

\* faulty variant: the probe's failure is not taken for a failure
authenticate_login_only(loginOk, probeOk) == loginOk

\* SuperNoteClient.authenticate: the flag it sets and returns
authenticate(loginOk, probeOk) == loginOk /\ probeOk

\* supernote.authenticate(email, password): login, then the probe ls() of
\* the root directory; main returns when it failed
CliAuthenticate ==
    /\ pc = "cli_authenticate"
    /\ \E loginOk \in BOOLEAN, probeOk \in BOOLEAN :
         /\ (~loginOk) => probeOk
         /\ events' = Append(events, Ev("login", "authenticate", <<>>, loginOk))
                      \o (IF loginOk THEN <<Ev("ls", "authenticate", <<>>, probeOk)>>
                          ELSE <<>>)
         /\ authenticated' = authenticate(loginOk, probeOk)
    /\ IF authenticated'
       THEN /\ exit' = exit
            /\ pc' = IF args.cleanup THEN "cli_remote_cleanup" ELSE "cli_ensure_directory"
       ELSE Return
    /\ UNCHANGED <<now, MAX_LOCAL_FILES, MAX_CLOUD_FILES, localDir, remoteDir,
                   passVars, codecVars, polVars, dlLocals, junk, dl_target_date, args,
                   credentials, puzzle_types, successful_downloads>>

\* supernote.ensure_directory_exists(SUPERNOTE_PUZZLES_DIR): one ls, True is
\* returned whether or not it raises; the RuntimeError of a call made
\* unauthenticated ends the process with sys.exit(1)
CliEnsureDirectory ==
    /\ pc = "cli_ensure_directory"
    /\ IF Raised(ensure_authenticated(authenticated))
       THEN exit' = Some("sys.exit(1)") /\ pc' = "cli_exit" /\ events' = events
       ELSE /\ events' = Append(events, Ev("ls", "ensure_directory_exists", <<>>, TRUE))
            /\ exit' = exit
            /\ pc' = "cli_upload"
    /\ UNCHANGED <<now, storeVars, passVars, codecVars, polVars, dlLocals, junk,
                   dl_target_date, args, credentials, puzzle_types,
                   successful_downloads>>

\* SuperNoteClient.file_exists: the name is among what list_files returns
file_exists(name, dir, lsOk) == InSeq(name, list_files(dir, lsOk))

\* main: one turn of the upload loop, supernote.upload_crossword(filepath):
\* upload_file returns (True, "exists") when file_exists says so, else it
\* makes sure of the directory and puts the file, (False, "error") when the
\* put raises
CliUpload ==
    /\ pc = "cli_upload"
    /\ LET name == successful_downloads[Count("upload_file") + 1]
       IN  \E lsOk \in BOOLEAN, putOk \in BOOLEAN :
             IF file_exists(name, remoteDir, lsOk)
             THEN /\ putOk
                  /\ events' = events \o
                       <<Ev("ls", "file_exists", <<>>, lsOk),
                         Ev("upload_file", "exists", name, TRUE)>>
                  /\ remoteDir' = remoteDir
             ELSE /\ events' = events \o
                       <<Ev("ls", "file_exists", <<>>, lsOk),
                         Ev("ls", "ensure_directory_exists", <<>>, TRUE),
                         Ev("put", "upload_file", name, putOk),
                         Ev("upload_file", IF putOk THEN "uploaded" ELSE "error",
                            name, putOk)>>
                  /\ remoteDir' = IF putOk THEN remoteDir \cup {name} ELSE remoteDir
    /\ pc' = IF Count("upload_file") + 1 < Len(successful_downloads)
             THEN "cli_upload" ELSE "cli_remote_cleanup"
    /\ UNCHANGED <<now, MAX_LOCAL_FILES, MAX_CLOUD_FILES, localDir, authenticated,
                   passVars, codecVars, polVars, dlLocals, junk, dl_target_date, args,
                   credentials, puzzle_types, successful_downloads, exit>>

\* supernote.cleanup_old_files(auto_confirm=args.auto_cleanup,
\* dry_run=args.dry_run), the last call of both branches of main
CliRemoteCleanup ==
    /\ pc = "cli_remote_cleanup"
    /\ IF Raised(ensure_authenticated(authenticated))
       THEN /\ exit' = Some("sys.exit(1)")
            /\ UNCHANGED <<events, remoteDir>>
       ELSE /\ exit' = Some("return")
            /\ \E lsOk \in BOOLEAN :
                 LET listing == list_files(remoteDir, lsOk)
                     removal == IF listing = <<>> THEN <<>>
                                ELSE RemoteFilesToRemove(listing, now,
                                                         CLOUD_RETENTION_DAYS,
                                                         MAX_CLOUD_FILES)
                 IN  \E d \in PassDeletes(removal, args.auto_cleanup, args.dry_run) :
                       /\ events' = events \o
                            <<Ev("cleanup_old_files", "SuperNoteClient", <<>>, TRUE),
                              Ev("ls", "SuperNoteClient.cleanup_old_files", <<>>, lsOk)>>
                            \o (IF d = None THEN <<>>
                                ELSE CleanupCalls("delete",
                                                  "SuperNoteClient.cleanup_old_files",
                                                  removal, d[1]))
                       /\ remoteDir' = IF d = None THEN remoteDir ELSE remoteDir \ d[1]
    /\ pc' = "cli_exit"
    /\ UNCHANGED <<now, MAX_LOCAL_FILES, MAX_CLOUD_FILES, localDir, authenticated,
                   passVars, codecVars, polVars, dlLocals, junk, dl_target_date, args,
                   credentials, puzzle_types, successful_downloads>>

NextCli ==
    \/ CliStart
    \/ CliLocalCleanup
    \/ CliInvalidFiles
    \/ CliTypes
    \/ CliDownload
    \/ CliCredentials
    \/ CliAuthenticate
    \/ CliEnsureDirectory
    \/ CliUpload
    \/ CliRemoteCleanup

SpecCli == InitCli /\ [][NextCli]_vars

-----------------------------------------------------------------------------
(* C12, C13, C14, C17: the runs of the command line tool                   *)

\* the places in the log of the calls named in ops
Logged(ops) == {i \in 1..Len(events) : events[i][1] \in ops}

\* the calls of a retention pass and of the sweep on the local store, of a
\* download, of the upload stage, and of the retention pass on the remote store
LocalPassCalls == {i \in Logged({"cleanup_old_files", "os.remove"}) :
                     events[i][2] \in {"FileManager", "FileManager.cleanup_old_files"}}

RemotePassCalls == {i \in Logged({"cleanup_old_files", "ls", "delete"}) :
                      events[i][2] \in {"SuperNoteClient",
                                        "SuperNoteClient.cleanup_old_files"}}

\* the stage a logged call belongs to: 1 the local retention pass and sweep,
\* 2 the downloads, 3 authentication and uploads, 4 the remote retention pass
StageOf(e) ==
    IF e[1] \in {"os.remove", "cleanup_invalid_files"} \/ e[2] = "FileManager" THEN 1
    ELSE IF e[1] = "download_crossword" THEN 2
    ELSE IF e[2] \in {"SuperNoteClient", "SuperNoteClient.cleanup_old_files"} THEN 4
    ELSE 3

\* a download run with upload enabled in which authentication succeeded
NormalRun == ~args.info /\ ~args.cleanup /\ ~args.no_upload /\ authenticated

\* C12 as stated: in a normal download run the downloads come first, then the
\* retention passes on both stores, and every put after both passes
C12_DownloadsThenPassesThenPuts ==
    NormalRun =>
      /\ \A i \in Logged({"download_crossword"}) :
           \A j \in LocalPassCalls \cup RemotePassCalls : i < j
      /\ \A i \in LocalPassCalls \cup RemotePassCalls :
           \A j \in Logged({"put"}) : i < j

\* C12, amended: in a normal download run the stages come in the order local
\* retention pass and sweep, downloads of every kind, authentication and
\* uploads, remote retention pass; no call of a stage comes after a call of a
\* later one, the upload stage starts when every kind was asked for, and the
\* remote pass when every downloaded file was handed to upload_file
C12_LocalPassDownloadsUploadsRemotePass ==
    NormalRun =>
      /\ \A i \in 1..(Len(events) - 1) : StageOf(events[i]) <= StageOf(events[i + 1])
      /\ Logged({"cleanup_invalid_files"}) # {} /\ LocalPassCalls # {}
      /\ Count("download_crossword") = Len(puzzle_types)
      /\ RemotePassCalls # {} => Count("upload_file") = Len(successful_downloads)
      /\ pc = "cli_exit" => RemotePassCalls # {}

\* a normal run came to its end: two kinds were downloaded, files were removed
\* from both stores, and a put was made
C12_Witness ==
    /\ NormalRun
    /\ pc = "cli_exit"
    /\ Len(successful_downloads) = 2
    /\ \E i \in Logged({"put"}) : events[i][4]
    /\ \E i \in Logged({"os.remove"}) : events[i][4]
    /\ \E i \in Logged({"delete"}) : events[i][4]

\* authentication failed, or a credential was missing
AuthenticationFailed ==
    \/ ~credentials /\ exit = Some("sys.exit(1)")
    \/ \E i \in Logged({"login", "ls"}) :
         events[i][2] = "authenticate" /\ ~events[i][4]

\* the local retention pass and the sweep have run
LocalWorkDone ==
    /\ \E i \in Logged({"cleanup_old_files"}) : events[i][2] = "FileManager"
    /\ Logged({"cleanup_invalid_files"}) # {}

\* C13 as stated: when authentication fails or credentials are missing, no
\* remote list, delete or put call is issued, and the local retention pass
\* and the sweep have run
C13_NoRemoteCall ==
    AuthenticationFailed =>
      /\ Logged({"ls", "delete", "put"}) = {}
      /\ LocalWorkDone

\* C13, amended: when authentication fails or credentials are missing, the
\* only remote list call issued is the one probe ls() inside authenticate
\* (after a login that succeeded), no delete or put is issued, and the local
\* retention pass and the sweep have run
C13_NoRemoteCallButTheProbe ==
    AuthenticationFailed =>
      /\ Logged({"delete", "put"}) = {}
      /\ \A i \in Logged({"ls"}) :
           /\ events[i][2] = "authenticate"
           /\ i > 1 /\ events[i - 1] = Ev("login", "authenticate", <<>>, TRUE)
      /\ Cardinality(Logged({"ls"})) <= 1
      /\ LocalWorkDone

\* the probe failed in a cleanup run that had removed a local file, and the
\* run is over
C13_Witness ==
    /\ args.cleanup
    /\ pc = "cli_exit"
    /\ \E i \in Logged({"ls"}) : events[i][2] = "authenticate" /\ ~events[i][4]
    /\ \E i \in Logged({"os.remove"}) : events[i][4]

\* C14: in a run with --dry-run no cleanup operation deletes a file from the
\* local directory or the remote store
C14_DryRunDeletesNothing ==
    args.dry_run =>
      \A i \in Logged({"os.remove", "delete"}) : ~events[i][4]

\* C17: upload_file issues a put only for a name that is absent from the
\* remote store
C17_PutOnlyWhenAbsent ==
    [][\A i \in (Len(events) + 1)..Len(events') :
         events'[i][1] = "put" => events'[i][3] \notin remoteDir]_vars

-----------------------------------------------------------------------------
(* The remote client called in any order (SuperNoteClient)                 *)

\* greatest number of calls made on one client
MaxClientCalls == 4

InitClient ==
    /\ now \in NowDates
    /\ MAX_LOCAL_FILES = ShippedMaxLocalFiles
    /\ MAX_CLOUD_FILES = ShippedMaxCloudFiles
    /\ localDir = {}
    /\ remoteDir \in SUBSET {OldName, TargetName}
    /\ authenticated = FALSE
    /\ pc = "client"
    /\ NoPass
    /\ NoCodec
    /\ NoDownload
    /\ NoPolicy
    /\ NoCli

\* the client exists and may be called once more
ClientReady == pc = "client" /\ Count("call") < MaxClientCalls

\* a method of the client is called: the log gets the call, and, when
\* ensure_authenticated raises, the RuntimeError that ends it
ClientCall(method, issued) ==
    /\ events' = Append(events, Ev("call", method, <<>>, TRUE)) \o
                 (IF Raised(ensure_authenticated(authenticated))
                  THEN <<Ev("RuntimeError", method, <<>>, FALSE)>>
                  ELSE issued)
    /\ UNCHANGED <<now, MAX_LOCAL_FILES, MAX_CLOUD_FILES, localDir, pc, passVars,
                   codecVars, dlVars, polVars, args, credentials, puzzle_types,
                   successful_downloads, exit>>

\* SuperNoteClient.authenticate(email, password)
ClientAuthenticate ==
    /\ ClientReady
    /\ \E loginOk \in BOOLEAN, probeOk \in BOOLEAN :
         /\ (~loginOk) => probeOk
         /\ events' = events \o
              <<Ev("call", "authenticate", <<>>, TRUE),
                Ev("login", "authenticate", <<>>, loginOk)>> \o
              (IF loginOk THEN <<Ev("ls", "authenticate", <<>>, probeOk)>> ELSE <<>>)
         /\ authenticated' = authenticate(loginOk, probeOk)
    /\ UNCHANGED <<now, MAX_LOCAL_FILES, MAX_CLOUD_FILES, localDir, remoteDir, pc,
                   passVars, codecVars, dlVars, polVars, args, credentials,
                   puzzle_types, successful_downloads, exit>>

\* SuperNoteClient.list_files(directory_path)
ClientListFiles ==
    /\ ClientReady
    /\ \E lsOk \in BOOLEAN :
         ClientCall("list_files", <<Ev("ls", "list_files", <<>>, lsOk)>>)
    /\ UNCHANGED <<remoteDir, authenticated>>

\* SuperNoteClient.file_exists(file_path)
ClientFileExists ==
    /\ ClientReady
    /\ \E lsOk \in BOOLEAN :
         ClientCall("file_exists", <<Ev("ls", "file_exists", <<>>, lsOk)>>)
    /\ UNCHANGED <<remoteDir, authenticated>>

\* SuperNoteClient.ensure_directory_exists(directory_path)
ClientEnsureDirectory ==
    /\ ClientReady
    /\ \E lsOk \in BOOLEAN :
         ClientCall("ensure_directory_exists",
                    <<Ev("ls", "ensure_directory_exists", <<>>, lsOk)>>)
    /\ UNCHANGED <<remoteDir, authenticated>>

\* SuperNoteClient.upload_file(local_filepath, remote_filepath)
ClientUploadFile ==
    /\ ClientReady
    /\ \E lsOk \in BOOLEAN, putOk \in BOOLEAN :
         LET name == TargetName
             exists == file_exists(name, remoteDir, lsOk)
         IN  /\ exists => putOk
             /\ ClientCall("upload_file",
                    <<Ev("ls", "file_exists", <<>>, lsOk)>> \o
                    (IF exists THEN <<>>
                     ELSE <<Ev("ls", "ensure_directory_exists", <<>>, TRUE),
                            Ev("put", "upload_file", name, putOk)>>))
             /\ remoteDir' = IF ~Raised(ensure_authenticated(authenticated)) /\ ~exists
                                /\ putOk
                             THEN remoteDir \cup {name} ELSE remoteDir
    /\ UNCHANGED authenticated

\* SuperNoteClient.cleanup_old_files(directory_path, auto_confirm, dry_run)
ClientCleanupOldFiles ==
    /\ ClientReady
    /\ \E ac \in BOOLEAN, dr \in BOOLEAN, lsOk \in BOOLEAN :
         LET listing == list_files(remoteDir, lsOk)
             removal == IF listing = <<>> THEN <<>>
                        ELSE RemoteFilesToRemove(listing, now, CLOUD_RETENTION_DAYS,
                                                 MAX_CLOUD_FILES)
         IN  \E d \in PassDeletes(removal, ac, dr) :
               /\ ClientCall("cleanup_old_files",
                      <<Ev("ls", "SuperNoteClient.cleanup_old_files", <<>>, lsOk)>> \o
                      (IF d = None THEN <<>>
                       ELSE CleanupCalls("delete", "SuperNoteClient.cleanup_old_files",
                                         removal, d[1])))
               /\ remoteDir' = IF Raised(ensure_authenticated(authenticated)) \/ d = None
                               THEN remoteDir ELSE remoteDir \ d[1]
    /\ UNCHANGED authenticated

NextClient ==
    \/ ClientAuthenticate
    \/ ClientListFiles
    \/ ClientFileExists
    \/ ClientEnsureDirectory
    \/ ClientUploadFile
    \/ ClientCleanupOldFiles

SpecClient == InitClient /\ [][NextClient]_vars

-----------------------------------------------------------------------------
(* C22: remote calls and the authenticated flag                            *)

\* the places in the log where authenticate was called
AuthenticateCalls ==
    {i \in 1..Len(events) : events[i] = Ev("call", "authenticate", <<>>, TRUE)}

\* the most recent call of authenticate succeeded: its login and its probe
\* listing both did
LastAuthenticateSucceeded ==
    /\ AuthenticateCalls # {}
    /\ LET last == CHOOSE i \in AuthenticateCalls : \A j \in AuthenticateCalls : j <= i
       IN  /\ Len(events) >= last + 2
           /\ events[last + 1] = Ev("login", "authenticate", <<>>, TRUE)
           /\ events[last + 2] = Ev("ls", "authenticate", <<>>, TRUE)

\* what a step adds to the log
Added == SubSeq(events', Len(events) + 1, Len(events'))

\* in a step that is a call of a method other than authenticate, every
\* listing, delete or put is issued with the flag true, and with the flag
\* false the call ends in RuntimeError with no remote call and the remote
\* store as it was
GuardedCall ==
    (Added # <<>> /\ Added[1][2] # "authenticate") =>
        /\ \A i \in 1..Len(Added) :
             Added[i][1] \in {"ls", "delete", "put"} => authenticated
        /\ ~authenticated =>
             /\ Added = <<Added[1], Ev("RuntimeError", Added[1][2], <<>>, FALSE)>>
             /\ remoteDir' = remoteDir
        /\ authenticated' = authenticated

\* C22: list_files, file_exists, upload_file, ensure_directory_exists and
\* cleanup_old_files issue a listing, delete or put call only while the
\* authenticated flag is true; the flag, false on a new client, is true
\* after a step only when the most recent authenticate call succeeded (login
\* and probe listing); called unauthenticated they raise before touching the
\* remote store.
C22_RemoteCallsOnlyAuthenticated ==
    [][GuardedCall /\ (authenticated' => LastAuthenticateSucceeded')]_vars

\* C22 witness: a put or delete succeeded while authenticated, a later
\* authenticate failed, and a call made after it raised
C22_Witness ==
    /\ ~authenticated
    /\ \E i \in Logged({"put", "delete"}) :
         /\ events[i][4]
         /\ \E j \in AuthenticateCalls :
              /\ j > i
              /\ \E k \in Logged({"RuntimeError"}) : k > j

====
